---- MODULE Spec2Model ----
(***************************************************************************)
(* Retry wrapper and circuit breaker of the Azure OpenAI LangChain wrapper *)
(* (RetryWrapper.execute and RetryWrapper.executeWithCircuitBreaker).      *)
(*                                                                         *)
(* Callers are JavaScript async call chains on one event loop: every       *)
(* synchronous section between two awaits is one atomic action.            *)
(***************************************************************************)
EXTENDS Integers, FiniteSets, Sequences, TLC

\* ---------------------------------------------------------------- bounds
NumProcs == 2          \* concurrent callers sharing RetryWrapper.circuitBreaker
MaxCalls == 4          \* logical calls made in one run
MaxRetries == 1        \* largest options.retries a caller passes
MaxTime == 5           \* last value of the clock Date.now()
Threshold == 2         \* options.threshold passed by every caller
ResetTimeout == 2      \* options.resetTimeout passed by every caller
RandSteps == 4         \* Math.random() takes the values k / RandSteps
MaxBackoffs == 7       \* backoff delays computed for one policy
MaxEnvLen == 2         \* longest text of MAX_RETRY_ATTEMPTS
NumChats == 2          \* concurrent call chains using one AzureOpenAIService
MaxChats == 3          \* chat calls made in one run
MaxBatch == 2          \* longest inputs array given to batchProcess
NumConvs == 1          \* conversation ids in use
NumTexts == 2          \* distinct user texts
MaxClears == 1         \* clearConversation / clearAllConversations calls

Procs == 1..NumProcs
NoTime == -1           \* lastFailureTime: null

VARIABLES
  breaker,        \* RetryWrapper.circuitBreaker {failures, lastFailureTime, state}
  now,            \* Date.now()
  enableRetry,    \* appConfig.enableRetry
  pc,             \* where each caller's call chain is suspended
  retries,        \* options.retries of the caller's current call
  attemptNumber,  \* p-retry's attempt number of the current call
  invoked,        \* fn's call counter for the caller's latest admitted call
  result,         \* how the latest invocation of fn settled
  outcome,        \* what the caller's latest call returned or threw
  errAttempt,     \* error.attemptNumber p-retry put on the thrown error
  admitState,     \* breaker.state when the current call passed the open check
  probe,          \* the current call moved the breaker open -> half-open
  ncalls,         \* logical calls each caller has made so far
  streak,         \* failed logical calls completed since the last success
  policy,         \* the options object the callers pass to every call
  timeouts,       \* the retry delays p-retry computed for the current call
  timerDue,       \* when the backoff timer of the current call may fire
  pending,        \* invocations of fn by the current call that have not settled
  cancelled,      \* the caller has stopped waiting for its current call
  calc,           \* the latest evaluation of one of the helper functions
  conversations,  \* AzureOpenAIService.conversations: Map id -> messages
  metrics,        \* AzureOpenAIService.metrics {totalCalls, errors}
  cpc,            \* where each chat call chain is suspended
  copt,           \* input and options of the chain's current chat
  csent,          \* the messages array the current chat gives to model.invoke
  cattempt,       \* p-retry's attempt number of the current chat
  creply,         \* the output of the current chat, once the model answered
  stale,          \* the current chat's conversation was cleared meanwhile
  batch,          \* batchProcess of each chain: inputs, i, results, errors
  nchats,         \* chat calls started so far
  nfailed,        \* chat calls that have thrown so far
  nclears         \* clear calls made so far

\* the state of the AzureOpenAIService instance and of its callers
svcState == <<conversations, metrics, cpc, copt, csent, cattempt, creply,
              stale, batch, nchats, nfailed, nclears>>

vars == <<breaker, now, enableRetry, pc, retries, attemptNumber, invoked,
          result, outcome, errAttempt, admitState, probe, ncalls, streak,
          policy, timeouts, timerDue, pending, cancelled, calc, svcState>>

\* ------------------------------------------------------- circuit breaker

\* the breaker object created on the first call
NewBreaker == [failures |-> 0, lastFailureTime |-> NoTime, state |-> "closed"]

\* the cooldown test of the open check
CooldownElapsed(b, t) == t - b.lastFailureTime > ResetTimeout

\* a slip that inverts the cooldown test
Rejects_Inverted(b, t) == b.state = "open" /\ CooldownElapsed(b, t)

\* the open check: TRUE when the call is rejected with 'Circuit breaker is open'
Rejects(b, t) == b.state = "open" /\ ~CooldownElapsed(b, t)

\* the breaker after a call passed the open check
AfterOpenCheck(b, t) ==
  IF b.state = "open" /\ CooldownElapsed(b, t)
  THEN [b EXCEPT !.state = "half-open"]
  ELSE b

\* a slip that puts the throw of the open check inside the try block
AfterRejection_Counted(b, t) ==
  [b EXCEPT !.failures = @ + 1, !.lastFailureTime = t]

\* a slip that restarts the cooldown on every rejection
AfterRejection_Restamped(b, t) == [b EXCEPT !.lastFailureTime = t]

\* the breaker after a call was rejected: the throw is outside the try block
AfterRejection(b, t) == b

\* a slip that closes the breaker without resetting the counter
OnSuccess_KeepsCount(b) ==
  IF b.state = "half-open" THEN [b EXCEPT !.state = "closed"] ELSE b

\* a slip that clears the time when the breaker closes
OnSuccess_ClearsTime(b) ==
  IF b.state = "half-open"
  THEN [b EXCEPT !.state = "closed", !.failures = 0, !.lastFailureTime = NoTime]
  ELSE b

\* "Reset on success"
OnSuccess(b) ==
  IF b.state = "half-open"
  THEN [b EXCEPT !.state = "closed", !.failures = 0]
  ELSE b

\* a slip that opens only above the threshold
OnFailure_StrictThreshold(b, t) ==
  LET counted == [b EXCEPT !.failures = @ + 1, !.lastFailureTime = t]
  IN  IF counted.failures > Threshold
      THEN [counted EXCEPT !.state = "open"]
      ELSE counted

\* a slip that records the time only when the breaker stays as it is
OnFailure_NoTimeOnOpening(b, t) ==
  LET counted == [b EXCEPT !.failures = @ + 1]
  IN  IF counted.failures >= Threshold
      THEN [counted EXCEPT !.state = "open"]
      ELSE [counted EXCEPT !.lastFailureTime = t]

\* the catch block
OnFailure(b, t) ==
  LET counted == [b EXCEPT !.failures = @ + 1, !.lastFailureTime = t]
  IN  IF counted.failures >= Threshold
      THEN [counted EXCEPT !.state = "open"]
      ELSE counted

\* ------------------------------------------------------------- p-retry

\* operation.retry(error): another attempt is scheduled while retries are left
RetriesLeft(attempt, r) == r - (attempt - 1)

\* a slip that allows one retry too many
ShouldRetry_OneTooMany(attempt, r) == RetriesLeft(attempt, r) >= 0

ShouldRetry(attempt, r) == RetriesLeft(attempt, r) > 0

\* a slip that never aborts
Aborts_Never(kind) == FALSE

\* the error is wrapped in pRetry.AbortError when isRetryable refuses it
Aborts(kind) == kind # "retryable"

Min(a, b) == IF a <= b THEN a ELSE b
Max(a, b) == IF a >= b THEN a ELSE b

RECURSIVE Pow(_, _)
Pow(b, e) == IF e = 0 THEN 1 ELSE b * Pow(b, e - 1)

\* Math.round(n / d) for n >= 0, d > 0
Round(n, d) == (2 * n + d) \div (2 * d)

\* Math.floor(n / d) for n >= 0, d > 0
Floor(n, d) == n \div d

\* a slip that ignores the randomize option
CreateTimeout_AlwaysRandom(attempt, opts, k) ==
  Min(Round((RandSteps + k) * Max(opts.minTimeout, 1)
              * Pow(opts.factor, attempt), RandSteps),
      opts.maxTimeout)

\* a slip that forgets the cap
CreateTimeout_NoCap(attempt, opts, k) ==
  Round((IF opts.randomize THEN RandSteps + k ELSE RandSteps)
          * Max(opts.minTimeout, 1) * Pow(opts.factor, attempt), RandSteps)

\* the delay p-retry waits before retry number attempt + 1 (attempt counts
\* from 0), with Math.random() = k / RandSteps:
\* min(round(random * max(minTimeout, 1) * factor ^ attempt), maxTimeout),
\* random = 1 + Math.random() when randomize is set and 1 otherwise
CreateTimeout(attempt, opts, k) ==
  Min(Round((IF opts.randomize THEN RandSteps + k ELSE RandSteps)
              * Max(opts.minTimeout, 1) * Pow(opts.factor, attempt), RandSteps),
      opts.maxTimeout)

\* Array.prototype.sort((a, b) => a - b)
RECURSIVE SortAsc(_)
SortAsc(s) ==
  IF Len(s) <= 1 THEN s
  ELSE LET i == CHOOSE i \in 1..Len(s) : \A j \in 1..Len(s) : s[i] <= s[j]
       IN  <<s[i]>> \o SortAsc(SubSeq(s, 1, i - 1) \o SubSeq(s, i + 1, Len(s)))

\* the delays p-retry computes when the call starts: one per retry, sorted
Timeouts(opts, r, ks) ==
  SortAsc([i \in 1..r |-> CreateTimeout(i - 1, opts, ks[i])])

\* the delay before the retry that follows failed attempt number attempt
NextTimeout(ts, attempt) == IF attempt \in DOMAIN ts THEN ts[attempt] ELSE 0

\* -------------------------------------------------------- ErrorHandler

\* what fn can throw: an error with error.response.status, an error without
\* a response (network failure, timeout), a LangChainError, or one of the
\* wrapper's own BaseError subclasses
HttpError(status, retryAfter) ==
  [name |-> "Error", status |-> status, retryAfter |-> retryAfter]
PlainError(name) == [name |-> name, status |-> 0, retryAfter |-> 0]
OwnError(class, statusCode, retryAfter) ==
  [name |-> class, status |-> statusCode, retryAfter |-> retryAfter]

BaseErrorClasses ==
  {"BaseError", "ConfigurationError", "AzureOpenAIError",
   "PromptTemplateError", "RateLimitError", "ValidationError"}

HttpStatuses == {400, 401, 403, 404, 429, 500, 501, 502, 503, 504}

RawErrors ==
  {HttpError(s, 0) : s \in HttpStatuses}
    \cup {HttpError(429, 60)}
    \cup {PlainError(n) : n \in {"NetworkError", "TimeoutError", "LangChainError"}}
    \cup {OwnError("ValidationError", 400, 0),
          OwnError("RateLimitError", 429, 0),
          OwnError("RateLimitError", 429, 1),
          OwnError("AzureOpenAIError", 401, 0),
          OwnError("AzureOpenAIError", 503, 0)}

\* a handled error: a BaseError with its class, statusCode, details.retryAfter
Handled(class, statusCode, retryAfter) ==
  [class |-> class, statusCode |-> statusCode, retryAfter |-> retryAfter]

\* ErrorHandler.handle(error)
Handle(e) ==
  IF e.name \in BaseErrorClasses
  THEN Handled(e.name, e.status, e.retryAfter)
  ELSE IF e.status # 0
  THEN IF e.status = 429
       THEN Handled("RateLimitError", 429, e.retryAfter)
       ELSE Handled("AzureOpenAIError", e.status, 0)
  ELSE Handled("BaseError", 500, 0)

\* ErrorHandler.isRetryable(error)
IsRetryable(h) ==
  \/ h.class = "RateLimitError"
  \/ h.class = "AzureOpenAIError" /\ h.statusCode \in {429, 500, 502, 503, 504}

\* how the catch block of execute() sees what fn threw
Classify(e) == IF IsRetryable(Handle(e)) THEN "retryable" ELSE "fatal"

\* a slip that drops the Retry-After branch
GetRetryDelay_NoRetryAfter(h, attempt, baseDelay, k) ==
  LET delay == Min(baseDelay * Pow(2, attempt - 1), 30000)
  IN  Floor(10 * RandSteps * delay + k * delay, 10 * RandSteps)

\* a slip that subtracts the jitter
GetRetryDelay_JitterDown(h, attempt, baseDelay, k) ==
  IF h.class = "RateLimitError" /\ h.retryAfter # 0
  THEN h.retryAfter * 1000
  ELSE LET delay == Min(baseDelay * Pow(2, attempt - 1), 30000)
       IN  Floor(10 * RandSteps * delay - k * delay, 10 * RandSteps)

\* ErrorHandler.getRetryDelay(error, attempt, baseDelay) with
\* Math.random() = k / RandSteps:
\* floor(delay + random * 0.1 * delay), delay = min(baseDelay * 2^(attempt-1), 30000)
GetRetryDelay(h, attempt, baseDelay, k) ==
  IF h.class = "RateLimitError" /\ h.retryAfter # 0
  THEN h.retryAfter * 1000
  ELSE LET delay == Min(baseDelay * Pow(2, attempt - 1), 30000)
       IN  Floor(10 * RandSteps * delay + k * delay, 10 * RandSteps)

\* logical calls made so far by all callers
RECURSIVE SumTo(_, _)
SumTo(f, n) == IF n = 0 THEN 0 ELSE f[n] + SumTo(f, n - 1)
TotalCalls == SumTo(ncalls, NumProcs)

\* ------------------------------------------------- AzureOpenAIService

Chats == 1..NumChats
ConvIds == 1..NumConvs
NoConv == 0            \* options.conversationId not given
Texts == 1..NumTexts

\* chat inputs: a string is a one-element sequence, an array of strings a
\* longer one
Inputs == {<<t>> : t \in Texts} \cup {<<1, 2>>}

HumanMessage(content) == [role |-> "human", content |-> content]
AIMessage(content) == [role |-> "ai", content |-> content]
SystemMessage == [role |-> "system", content |-> 0]

\* the model's answer to a prompt that ends with the user text t
Reply(t) == 10 + t

NoConversations == [id \in {} |-> <<>>]
NoChat == [input |-> <<>>, conv |-> NoConv, sys |-> FALSE]
NoBatch == [active |-> FALSE, inputs |-> <<>>, i |-> 0,
            results |-> <<>>, errors |-> <<>>]

Last(s) == s[Len(s)]

\* getConversationHistory
GetConversationHistory(convs, id) ==
  IF id \in DOMAIN convs THEN convs[id] ELSE <<>>

\* a slip that sends the input without the history
BuildMessages_NoHistory(convs, opt) ==
  (IF opt.sys THEN <<SystemMessage>> ELSE <<>>)
    \o [k \in 1..Len(opt.input) |-> HumanMessage(opt.input[k])]

\* buildMessages: system message, history, then the input
BuildMessages(convs, opt) ==
  (IF opt.sys THEN <<SystemMessage>> ELSE <<>>)
    \o (IF opt.conv # NoConv THEN GetConversationHistory(convs, opt.conv)
        ELSE <<>>)
    \o [k \in 1..Len(opt.input) |-> HumanMessage(opt.input[k])]

\* addToConversation, which starts the conversation when it does not exist
AddToConversation(convs, id, message) ==
  [j \in DOMAIN convs \cup {id} |->
     IF j = id THEN Append(GetConversationHistory(convs, id), message)
     ELSE convs[j]]

\* a slip that records the answer before the question
RecordExchange_AiFirst(convs, opt, output) ==
  IF opt.conv = NoConv THEN convs
  ELSE AddToConversation(
         AddToConversation(convs, opt.conv, AIMessage(output)),
         opt.conv, HumanMessage(Last(opt.input)))

\* chat's history update: the two addToConversation calls
RecordExchange(convs, opt, output) ==
  IF opt.conv = NoConv THEN convs
  ELSE AddToConversation(
         AddToConversation(convs, opt.conv, HumanMessage(Last(opt.input))),
         opt.conv, AIMessage(output))

\* a slip that counts only the successful calls
UpdateMetrics_SuccessOnly(m, success) ==
  [totalCalls |-> m.totalCalls + (IF success THEN 1 ELSE 0),
   errors |-> m.errors + (IF success THEN 0 ELSE 1)]

\* updateMetrics
UpdateMetrics(m, success) ==
  [totalCalls |-> m.totalCalls + 1,
   errors |-> m.errors + (IF success THEN 0 ELSE 1)]

\* getMetrics().successRate as the fraction num / den
SuccessRate(m) ==
  IF m.totalCalls > 0
  THEN [num |-> (m.totalCalls - m.errors) * 100, den |-> m.totalCalls]
  ELSE [num |-> 0, den |-> 1]

\* ---------------------------------------------------------------- Init

NoCalc == [fn |-> "none"]

\* the options objects the callers of one run share
Policies ==
  [retries : 0..MaxRetries, minTimeout : {1}, maxTimeout : {2}, factor : {2},
   randomize : BOOLEAN]

Init ==
  /\ breaker = NewBreaker
  /\ now = 0
  /\ enableRetry \in BOOLEAN
  /\ pc = [p \in Procs |-> "idle"]
  /\ retries = [p \in Procs |-> 0]
  /\ attemptNumber = [p \in Procs |-> 0]
  /\ invoked = [p \in Procs |-> 0]
  /\ result = [p \in Procs |-> "none"]
  /\ outcome = [p \in Procs |-> "none"]
  /\ errAttempt = [p \in Procs |-> 0]
  /\ admitState = [p \in Procs |-> "none"]
  /\ probe = [p \in Procs |-> FALSE]
  /\ ncalls = [p \in Procs |-> 0]
  /\ streak = 0
  /\ policy \in Policies
  /\ timeouts = [p \in Procs |-> <<>>]
  /\ timerDue = [p \in Procs |-> 0]
  /\ pending = [p \in Procs |-> 0]
  /\ cancelled = [p \in Procs |-> FALSE]
  /\ calc = NoCalc
  /\ conversations = NoConversations
  /\ metrics = [totalCalls |-> 0, errors |-> 0]
  /\ cpc = [c \in Chats |-> "idle"]
  /\ copt = [c \in Chats |-> NoChat]
  /\ csent = [c \in Chats |-> <<>>]
  /\ cattempt = [c \in Chats |-> 0]
  /\ creply = [c \in Chats |-> 0]
  /\ stale = [c \in Chats |-> FALSE]
  /\ batch = [c \in Chats |-> NoBatch]
  /\ nchats = 0
  /\ nfailed = 0
  /\ nclears = 0

\* ------------------------------------------------------------- actions

\* Date.now() advances; the continuations of settled promises (microtasks)
\* have run by then
Tick ==
  /\ now < MaxTime
  /\ \A p \in Procs : pc[p] \notin {"resolved", "rejected"}
  /\ now' = now + 1
  /\ UNCHANGED <<breaker, enableRetry, pc, retries, attemptNumber, invoked,
                 result, outcome, errAttempt, admitState, probe, ncalls, streak,
                 policy, timeouts, timerDue, pending, cancelled, calc, svcState>>

\* executeWithCircuitBreaker(fn, {retries: r, threshold, resetTimeout}) up to
\* its first await: the open check, then execute() and p-retry's first,
\* synchronous invocation of fn
Call(p, r) ==
  /\ pc[p] = "idle"
  /\ TotalCalls < MaxCalls
  /\ ncalls' = [ncalls EXCEPT ![p] = @ + 1]
  /\ IF Rejects(breaker, now)
     THEN /\ outcome' = [outcome EXCEPT ![p] = "circuit_open"]
          /\ breaker' = AfterRejection(breaker, now)
          /\ UNCHANGED <<pc, retries, attemptNumber, invoked,
                         admitState, probe, timeouts, pending>>
     ELSE /\ breaker' = AfterOpenCheck(breaker, now)
          /\ retries' = [retries EXCEPT ![p] = r]
          /\ admitState' = [admitState EXCEPT ![p] = breaker'.state]
          /\ probe' = [probe EXCEPT ![p] = (breaker.state = "open")]
          /\ outcome' = [outcome EXCEPT ![p] = "none"]
          /\ attemptNumber' = [attemptNumber EXCEPT ![p] = 1]
          /\ invoked' = [invoked EXCEPT ![p] = 1]
          /\ pending' = [pending EXCEPT ![p] = 1]
          /\ \E ks \in [1..r -> 0..(RandSteps - 1)] :
               timeouts' = [timeouts EXCEPT ![p] =
                              IF enableRetry THEN Timeouts(policy, r, ks)
                              ELSE <<>>]
          /\ pc' = [pc EXCEPT ![p] = "inflight"]
  /\ UNCHANGED <<now, enableRetry, result, errAttempt, streak,
                 policy, timerDue, cancelled, calc, svcState>>

\* a slip that goes on retrying after a success
AttemptSucceeds_KeepsRetrying(p) ==
  /\ pc[p] = "inflight"
  /\ result' = [result EXCEPT ![p] = "ok"]
  /\ pending' = [pending EXCEPT ![p] = @ - 1]
  /\ pc' = [pc EXCEPT ![p] =
             IF enableRetry /\ ShouldRetry(attemptNumber[p], retries[p])
             THEN "backoff" ELSE "resolved"]
  /\ UNCHANGED <<breaker, now, enableRetry, retries, attemptNumber, invoked,
                 outcome, errAttempt, admitState, probe, ncalls, streak,
                 policy, timeouts, timerDue, cancelled, calc, svcState>>

\* the promise of fn(attemptNumber) fulfils: execute() resolves with the value
AttemptSucceeds(p) ==
  /\ pc[p] = "inflight"
  /\ result' = [result EXCEPT ![p] = "ok"]
  /\ pending' = [pending EXCEPT ![p] = @ - 1]
  /\ pc' = [pc EXCEPT ![p] = "resolved"]
  /\ UNCHANGED <<breaker, now, enableRetry, retries, attemptNumber, invoked,
                 outcome, errAttempt, admitState, probe, ncalls, streak,
                 policy, timeouts, timerDue, cancelled, calc, svcState>>

\* a slip that retries although appConfig.enableRetry is false
AttemptFails_IgnoresSwitch(p, kind) ==
  /\ pc[p] = "inflight"
  /\ result' = [result EXCEPT ![p] = kind]
  /\ pending' = [pending EXCEPT ![p] = @ - 1]
  /\ IF Aborts(kind)
     THEN /\ pc' = [pc EXCEPT ![p] = "rejected"]
          /\ errAttempt' = [errAttempt EXCEPT ![p] = 0]
          /\ UNCHANGED timerDue
     ELSE /\ errAttempt' = [errAttempt EXCEPT ![p] = attemptNumber[p]]
          /\ IF ShouldRetry(attemptNumber[p], retries[p])
             THEN /\ pc' = [pc EXCEPT ![p] = "backoff"]
                  /\ timerDue' = [timerDue EXCEPT ![p] =
                       now + NextTimeout(timeouts[p], attemptNumber[p])]
             ELSE /\ pc' = [pc EXCEPT ![p] = "rejected"]
                  /\ UNCHANGED timerDue
  /\ UNCHANGED <<breaker, now, enableRetry, retries, attemptNumber, invoked,
                 outcome, admitState, probe, ncalls, streak,
                 policy, timeouts, cancelled, calc, svcState>>

\* the promise of fn(attemptNumber) rejects with an error that
\* ErrorHandler.isRetryable accepts (kind = "retryable") or not ("fatal")
AttemptFails(p, kind) ==
  /\ pc[p] = "inflight"
  /\ result' = [result EXCEPT ![p] = kind]
  /\ pending' = [pending EXCEPT ![p] = @ - 1]
  /\ IF ~enableRetry \/ Aborts(kind)
     THEN /\ pc' = [pc EXCEPT ![p] = "rejected"]
          /\ errAttempt' = [errAttempt EXCEPT ![p] = 0]
          /\ UNCHANGED timerDue
     ELSE /\ errAttempt' = [errAttempt EXCEPT ![p] = attemptNumber[p]]
          /\ IF ShouldRetry(attemptNumber[p], retries[p])
             THEN /\ pc' = [pc EXCEPT ![p] = "backoff"]
                  /\ timerDue' = [timerDue EXCEPT ![p] =
                       now + NextTimeout(timeouts[p], attemptNumber[p])]
             ELSE /\ pc' = [pc EXCEPT ![p] = "rejected"]
                  /\ UNCHANGED timerDue
  /\ UNCHANGED <<breaker, now, enableRetry, retries, attemptNumber, invoked,
                 outcome, admitState, probe, ncalls, streak,
                 policy, timeouts, cancelled, calc, svcState>>

\* a slip that starts the next attempt without waiting for the running one
RetryTimerFires_Eager(p) ==
  /\ pc[p] = "inflight"
  /\ ShouldRetry(attemptNumber[p], retries[p])
  /\ attemptNumber' = [attemptNumber EXCEPT ![p] = @ + 1]
  /\ invoked' = [invoked EXCEPT ![p] = @ + 1]
  /\ pending' = [pending EXCEPT ![p] = @ + 1]
  /\ UNCHANGED <<breaker, now, enableRetry, pc, retries, result, outcome,
                 errAttempt, admitState, probe, ncalls, streak,
                 policy, timeouts, timerDue, cancelled, calc, svcState>>

\* the backoff timer of p-retry fires: fn is invoked again
RetryTimerFires(p) ==
  /\ pc[p] = "backoff"
  /\ now >= timerDue[p]
  /\ attemptNumber' = [attemptNumber EXCEPT ![p] = @ + 1]
  /\ invoked' = [invoked EXCEPT ![p] = @ + 1]
  /\ pending' = [pending EXCEPT ![p] = @ + 1]
  /\ timerDue' = [timerDue EXCEPT ![p] = 0]
  /\ pc' = [pc EXCEPT ![p] = "inflight"]
  /\ UNCHANGED <<breaker, now, enableRetry, retries, result, outcome,
                 errAttempt, admitState, probe, ncalls, streak,
                 policy, timeouts, cancelled, calc, svcState>>

\* the caller stops waiting for its call during a backoff; execute() takes
\* no signal and p-retry is given none, so nothing in the call can see it
\* (one withdrawn call at a time is followed)
Cancel(p) ==
  /\ pc[p] = "backoff"
  /\ \A q \in Procs : ~cancelled[q]
  /\ cancelled' = [cancelled EXCEPT ![p] = TRUE]
  /\ UNCHANGED <<breaker, now, enableRetry, pc, retries, attemptNumber,
                 invoked, result, outcome, errAttempt, admitState, probe,
                 ncalls, streak, policy, timeouts, timerDue, pending, calc, svcState>>

\* the call has returned or thrown: its locals are gone
Returned(p) ==
  /\ retries' = [retries EXCEPT ![p] = 0]
  /\ attemptNumber' = [attemptNumber EXCEPT ![p] = 0]
  /\ result' = [result EXCEPT ![p] = "none"]
  /\ errAttempt' = [errAttempt EXCEPT ![p] = 0]
  /\ admitState' = [admitState EXCEPT ![p] = "none"]
  /\ probe' = [probe EXCEPT ![p] = FALSE]
  /\ timeouts' = [timeouts EXCEPT ![p] = <<>>]
  /\ cancelled' = [cancelled EXCEPT ![p] = FALSE]

\* executeWithCircuitBreaker resumes after `await this.execute(...)` returned
BreakerSuccess(p) ==
  /\ pc[p] = "resolved"
  /\ breaker' = OnSuccess(breaker)
  /\ outcome' = [outcome EXCEPT ![p] = "value"]
  /\ pc' = [pc EXCEPT ![p] = "idle"]
  /\ streak' = 0
  /\ Returned(p)
  /\ UNCHANGED <<now, enableRetry, invoked, ncalls, policy, timerDue,
                 pending, calc, svcState>>

\* a slip that forgets to rethrow
BreakerFailure_Swallows(p) ==
  /\ pc[p] = "rejected"
  /\ breaker' = OnFailure(breaker, now)
  /\ outcome' = [outcome EXCEPT ![p] = "value"]
  /\ pc' = [pc EXCEPT ![p] = "idle"]
  /\ streak' = streak + 1
  /\ Returned(p)
  /\ UNCHANGED <<now, enableRetry, invoked, ncalls, policy, timerDue,
                 pending, calc, svcState>>

\* executeWithCircuitBreaker resumes in its catch block and rethrows
BreakerFailure(p) ==
  /\ pc[p] = "rejected"
  /\ breaker' = OnFailure(breaker, now)
  /\ outcome' = [outcome EXCEPT ![p] =
                   IF result[p] = "fatal" THEN "fatal_error" ELSE "retryable_error"]
  /\ pc' = [pc EXCEPT ![p] = "idle"]
  /\ streak' = streak + 1
  /\ Returned(p)
  /\ UNCHANGED <<now, enableRetry, invoked, ncalls, policy, timerDue,
                 pending, calc, svcState>>

Next ==
  \/ Tick
  \/ \E p \in Procs : Call(p, policy.retries)
  \/ \E p \in Procs : AttemptSucceeds(p)
  \/ \E p \in Procs, kind \in {Classify(e) : e \in RawErrors} :
       AttemptFails(p, kind)
  \/ \E p \in Procs : RetryTimerFires(p)
  \/ \E p \in Procs : Cancel(p)
  \/ \E p \in Procs : BreakerSuccess(p)
  \/ \E p \in Procs : BreakerFailure(p)

Spec == Init /\ [][Next]_vars

\* ------------------------------------- the helper functions on their own

callState == <<breaker, now, enableRetry, pc, retries, attemptNumber, invoked,
               result, outcome, errAttempt, admitState, probe, ncalls, streak,
               policy, timeouts, timerDue, pending, cancelled>>

\* retry options the delay computation is evaluated on
DelayPolicies ==
  [minTimeout : {100, 1000}, maxTimeout : {2000, 30000}, factor : {2, 3},
   randomize : BOOLEAN]

\* the errors ErrorHandler.handle returns
HandledErrors == {Handle(e) : e \in RawErrors}

\* p-retry computes the delay that follows failed attempt number attempt
ComputeTimeout(attempt, opts, k) ==
  /\ calc' = [fn |-> "createTimeout", attempt |-> attempt, opts |-> opts,
              k |-> k, out |-> CreateTimeout(attempt - 1, opts, k)]
  /\ UNCHANGED <<callState, svcState>>

\* ErrorHandler.getRetryDelay(h, attempt, baseDelay)
ComputeRetryDelay(h, attempt, baseDelay, k) ==
  /\ calc' = [fn |-> "getRetryDelay", error |-> h, attempt |-> attempt,
              baseDelay |-> baseDelay, k |-> k,
              out |-> GetRetryDelay(h, attempt, baseDelay, k)]
  /\ UNCHANGED <<callState, svcState>>

\* ErrorHandler.isRetryable(ErrorHandler.handle(e))
ClassifyError(e) ==
  /\ calc' = [fn |-> "classify", error |-> e, out |-> Classify(e)]
  /\ UNCHANGED <<callState, svcState>>

\* ------------------------------------------------------------- config.js

\* process.env.MAX_RETRY_ATTEMPTS: undefined, or a text
EnvChars == {"0", "2", "-", "a"}
EnvTexts == UNION {[1..n -> EnvChars] : n \in 0..MaxEnvLen}
EnvValues ==
  {[set |-> FALSE, text |-> <<>>]} \cup {[set |-> TRUE, text |-> t] : t \in EnvTexts}

Digits == <<"0", "1", "2", "3", "4", "5", "6", "7", "8", "9">>
IsDigit(c) == \E i \in DOMAIN Digits : Digits[i] = c
DigitVal(c) == (CHOOSE i \in DOMAIN Digits : Digits[i] = c) - 1

\* the value of the longest prefix of digits of t, after acc
RECURSIVE DigitPrefix(_, _)
DigitPrefix(t, acc) ==
  IF t = <<>> \/ ~IsDigit(Head(t))
  THEN acc
  ELSE DigitPrefix(Tail(t), 10 * acc + DigitVal(Head(t)))

NaN == [nan |-> TRUE, val |-> 0]

\* parseInt(env): an optional sign, then digits up to the first other
\* character; NaN when there is no digit, and for undefined
ParseInt(env) ==
  LET t == env.text
      neg == t # <<>> /\ Head(t) = "-"
      body == IF neg THEN Tail(t) ELSE t
  IN  IF ~env.set \/ body = <<>> \/ ~IsDigit(Head(body))
      THEN NaN
      ELSE [nan |-> FALSE,
            val |-> IF neg THEN 0 - DigitPrefix(body, 0) ELSE DigitPrefix(body, 0)]

\* buildConfig: parseInt(process.env.MAX_RETRY_ATTEMPTS) || 3
BuildMaxRetryAttempts(env) ==
  IF ParseInt(env).nan \/ ParseInt(env).val = 0 THEN 3 ELSE ParseInt(env).val

\* validateConfig: Joi.number().integer().min(0) accepts the built value or
\* the module throws; appConfig.maxRetryAttempts is the accepted value
MaxRetryAttempts(env) ==
  IF BuildMaxRetryAttempts(env) >= 0
  THEN [ok |-> TRUE, value |-> BuildMaxRetryAttempts(env)]
  ELSE [ok |-> FALSE, value |-> 0]

\* the configuration module loads with MAX_RETRY_ATTEMPTS = env
LoadConfig(env) ==
  /\ calc' = [fn |-> "maxRetryAttempts", env |-> env,
              out |-> MaxRetryAttempts(env)]
  /\ UNCHANGED <<callState, svcState>>

PureNext ==
  \/ \E attempt \in 1..MaxBackoffs, opts \in DelayPolicies,
        k \in 0..(RandSteps - 1) : ComputeTimeout(attempt, opts, k)
  \/ \E h \in HandledErrors, attempt \in 1..MaxBackoffs,
        baseDelay \in {100, 1000}, k \in 0..(RandSteps - 1) :
          ComputeRetryDelay(h, attempt, baseDelay, k)
  \/ \E e \in RawErrors : ClassifyError(e)
  \/ \E env \in EnvValues : LoadConfig(env)

\* the helper functions read no state of the calls
PureInit == Init /\ enableRetry /\ policy.retries = 0 /\ ~policy.randomize

PureSpec == PureInit /\ [][PureNext]_vars

\* ------------------------------------------- AzureOpenAIService actions

InFlight(c) == cpc[c] \in {"invoking", "backoff", "parsing"}

\* chat calls the running batchProcess loops have still to make
RECURSIVE Remaining(_)
Remaining(n) ==
  IF n = 0 THEN 0
  ELSE Remaining(n - 1)
         + (IF batch[n].active THEN Len(batch[n].inputs) - batch[n].i - 1
            ELSE 0)

\* chat calls this run may still start beyond those already due
Budget == MaxChats - nchats - Remaining(NumChats)

\* chat() up to its first await: buildMessages, then RetryWrapper.execute
\* and the first, synchronous model.invoke
Begin(c, opt) ==
  /\ cpc' = [cpc EXCEPT ![c] = "invoking"]
  /\ copt' = [copt EXCEPT ![c] = opt]
  /\ csent' = [csent EXCEPT ![c] = BuildMessages(conversations, opt)]
  /\ cattempt' = [cattempt EXCEPT ![c] = 1]
  /\ creply' = [creply EXCEPT ![c] = 0]
  /\ stale' = [stale EXCEPT ![c] = FALSE]
  /\ nchats' = nchats + 1

\* chat() settles: inside batchProcess the loop resumes next, else the
\* caller has its answer
Settle(c, how) ==
  /\ csent' = [csent EXCEPT ![c] = <<>>]
  /\ cattempt' = [cattempt EXCEPT ![c] = 0]
  /\ stale' = [stale EXCEPT ![c] = FALSE]
  /\ IF batch[c].active
     THEN /\ cpc' = [cpc EXCEPT ![c] = how]
          /\ UNCHANGED <<copt, creply>>
     ELSE /\ cpc' = [cpc EXCEPT ![c] = "idle"]
          /\ copt' = [copt EXCEPT ![c] = NoChat]
          /\ creply' = [creply EXCEPT ![c] = 0]

\* a caller calls chat(input, {conversationId, systemMessage})
ChatStart(c, opt) ==
  /\ cpc[c] = "idle"
  /\ ~batch[c].active
  /\ Budget >= 1
  /\ Begin(c, opt)
  /\ batch' = [batch EXCEPT ![c] = NoBatch]
  /\ UNCHANGED <<conversations, metrics, nfailed, nclears, callState, calc>>

\* model.invoke resolves: execute resolves, chat awaits outputParser.parse
ChatAttemptSucceeds(c) ==
  /\ cpc[c] = "invoking"
  /\ cpc' = [cpc EXCEPT ![c] = "parsing"]
  /\ creply' = [creply EXCEPT ![c] = Reply(Last(copt[c].input))]
  /\ UNCHANGED <<conversations, metrics, copt, csent, cattempt, stale, batch,
                 nchats, nfailed, nclears, callState, calc>>

\* model.invoke rejects: p-retry schedules a retry, or execute rejects and
\* chat's catch block runs
ChatAttemptFails(c, kind) ==
  /\ cpc[c] = "invoking"
  /\ IF enableRetry /\ ~Aborts(kind)
          /\ ShouldRetry(cattempt[c], policy.retries)
     THEN /\ cpc' = [cpc EXCEPT ![c] = "backoff"]
          /\ UNCHANGED <<metrics, copt, csent, cattempt, creply, stale,
                         nfailed>>
     ELSE /\ metrics' = UpdateMetrics(metrics, FALSE)
          /\ nfailed' = nfailed + 1
          /\ Settle(c, "thrown")
  /\ UNCHANGED <<conversations, batch, nchats, nclears, callState, calc>>

\* p-retry's timer fires: model.invoke is called again with the same messages
ChatRetry(c) ==
  /\ cpc[c] = "backoff"
  /\ cpc' = [cpc EXCEPT ![c] = "invoking"]
  /\ cattempt' = [cattempt EXCEPT ![c] = @ + 1]
  /\ UNCHANGED <<conversations, metrics, copt, csent, creply, stale, batch,
                 nchats, nfailed, nclears, callState, calc>>

\* chat resumes with the parsed output: history, metrics, return
ChatCompletes(c) ==
  /\ cpc[c] = "parsing"
  /\ conversations' = RecordExchange(conversations, copt[c], creply[c])
  /\ metrics' = UpdateMetrics(metrics, TRUE)
  /\ Settle(c, "fulfilled")
  /\ UNCHANGED <<batch, nchats, nfailed, nclears, callState, calc>>

\* a slip that forgets the failed inputs
PushOutcome_DropsErrors(b, ok, output) ==
  IF ok
  THEN [b EXCEPT !.results = Append(@, [index |-> b.i, output |-> output])]
  ELSE b

\* batchProcess records the outcome of inputs[i]
PushOutcome(b, ok, output) ==
  IF ok
  THEN [b EXCEPT !.results = Append(@, [index |-> b.i, output |-> output])]
  ELSE [b EXCEPT !.errors =
          Append(@, [index |-> b.i, input |-> b.inputs[b.i + 1]])]

\* a caller calls batchProcess(inputs, options): the loop enters chat for
\* inputs[0], or returns at once for an empty array
BatchStart(c, inputs, conv, sys) ==
  /\ cpc[c] = "idle"
  /\ \A d \in Chats : ~batch[d].active
  /\ Budget >= Len(inputs)
  /\ IF inputs = <<>>
     THEN /\ batch' = [batch EXCEPT ![c] = NoBatch]
          /\ UNCHANGED <<cpc, copt, csent, cattempt, creply, stale, nchats>>
     ELSE /\ batch' = [batch EXCEPT ![c] =
                         [NoBatch EXCEPT !.active = TRUE, !.inputs = inputs]]
          /\ Begin(c, [input |-> inputs[1], conv |-> conv, sys |-> sys])
  /\ UNCHANGED <<conversations, metrics, nfailed, nclears, callState, calc>>

\* the loop of batchProcess resumes after chat(inputs[i]) settled: it
\* records the outcome, then enters chat for inputs[i + 1] or returns
BatchContinue(c) ==
  /\ cpc[c] \in {"fulfilled", "thrown"}
  /\ batch[c].active
  /\ LET pushed == PushOutcome(batch[c], cpc[c] = "fulfilled", creply[c])
     IN  IF batch[c].i + 1 < Len(batch[c].inputs)
         THEN /\ batch' = [batch EXCEPT ![c] = [pushed EXCEPT !.i = @ + 1]]
              /\ Begin(c, [copt[c] EXCEPT
                             !.input = batch[c].inputs[batch[c].i + 2]])
         ELSE /\ batch' = [batch EXCEPT ![c] =
                             [pushed EXCEPT !.i = @ + 1, !.active = FALSE]]
              /\ cpc' = [cpc EXCEPT ![c] = "idle"]
              /\ copt' = [copt EXCEPT ![c] = NoChat]
              /\ creply' = [creply EXCEPT ![c] = 0]
              /\ UNCHANGED <<csent, cattempt, stale, nchats>>
  /\ UNCHANGED <<conversations, metrics, nfailed, nclears, callState, calc>>

\* clearConversation(id)
ClearConversation(id) ==
  /\ nclears < MaxClears
  /\ nclears' = nclears + 1
  /\ conversations' = [j \in DOMAIN conversations \ {id} |-> conversations[j]]
  /\ stale' = [c \in Chats |->
                stale[c] \/ (InFlight(c) /\ copt[c].conv = id)]
  /\ UNCHANGED <<metrics, cpc, copt, csent, cattempt, creply, batch, nchats,
                 nfailed, callState, calc>>

\* clearAllConversations()
ClearAllConversations ==
  /\ nclears < MaxClears
  /\ nclears' = nclears + 1
  /\ conversations' = NoConversations
  /\ stale' = [c \in Chats |->
                stale[c] \/ (InFlight(c) /\ copt[c].conv # NoConv)]
  /\ UNCHANGED <<metrics, cpc, copt, csent, cattempt, creply, batch, nchats,
                 nfailed, callState, calc>>

ChatOptions == [input : Inputs, conv : {NoConv} \cup ConvIds, sys : BOOLEAN]
BatchInputs == UNION {[1..n -> Inputs] : n \in 0..MaxBatch}

ChatNext ==
  \/ \E c \in Chats, opt \in ChatOptions : ChatStart(c, opt)
  \/ \E c \in Chats : ChatAttemptSucceeds(c)
  \/ \E c \in Chats, kind \in {Classify(e) : e \in RawErrors} :
       ChatAttemptFails(c, kind)
  \/ \E c \in Chats : ChatRetry(c)
  \/ \E c \in Chats : ChatCompletes(c)
  \/ \E c \in Chats, inputs \in BatchInputs,
        conv \in {NoConv} \cup ConvIds :
          BatchStart(c, inputs, conv, FALSE)
  \/ \E c \in Chats : BatchContinue(c)
  \/ \E id \in ConvIds : ClearConversation(id)
  \/ ClearAllConversations

\* the retry delays play no part in the service's bookkeeping
ChatInit ==
  Init /\ enableRetry /\ policy.retries = MaxRetries /\ ~policy.randomize

ChatSpec == ChatInit /\ [][ChatNext]_vars

Messages ==
  {SystemMessage} \cup {HumanMessage(t) : t \in Texts}
    \cup {AIMessage(Reply(t)) : t \in Texts}

SvcTypeOK ==
  /\ DOMAIN conversations \subseteq ConvIds
  /\ \A id \in DOMAIN conversations :
       /\ Len(conversations[id]) <= 2 * MaxChats
       /\ \A k \in DOMAIN conversations[id] : conversations[id][k] \in Messages
  /\ metrics.totalCalls \in 0..MaxChats
  /\ metrics.errors \in 0..MaxChats
  /\ nchats \in 0..MaxChats
  /\ nfailed \in 0..MaxChats
  /\ nclears \in 0..MaxClears
  /\ \A c \in Chats :
       /\ cpc[c] \in {"idle", "invoking", "backoff", "parsing",
                       "fulfilled", "thrown"}
       /\ copt[c] \in ChatOptions \cup {NoChat}
       /\ cattempt[c] \in 0..(MaxRetries + 1)
       /\ creply[c] \in {0} \cup {Reply(t) : t \in Texts}
       /\ stale[c] \in BOOLEAN
       /\ batch[c].inputs \in BatchInputs
       /\ batch[c].i \in 0..MaxBatch
       /\ Len(batch[c].results) + Len(batch[c].errors) <= MaxBatch
       /\ \A k \in DOMAIN csent[c] : csent[c][k] \in Messages

TypeOK ==
  /\ breaker.failures \in 0..MaxCalls
  /\ breaker.lastFailureTime \in {NoTime} \cup (0..MaxTime)
  /\ breaker.state \in {"closed", "open", "half-open"}
  /\ now \in 0..MaxTime
  /\ TotalCalls \in 0..MaxCalls
  /\ streak \in 0..MaxCalls
  /\ policy \in Policies
  /\ \A p \in Procs :
       /\ pc[p] \in {"idle", "inflight", "backoff", "resolved", "rejected"}
       /\ retries[p] \in 0..MaxRetries
       /\ attemptNumber[p] \in 0..(MaxRetries + 1)
       /\ invoked[p] \in 0..(MaxRetries + 1)
       /\ result[p] \in {"none", "ok", "retryable", "fatal"}
       /\ outcome[p] \in {"none", "value", "circuit_open",
                          "retryable_error", "fatal_error"}
       /\ admitState[p] \in {"none", "closed", "half-open"}
       /\ Len(timeouts[p]) \in {0, retries[p]}
       /\ timerDue[p] \in 0..(MaxTime + 2)
       /\ pending[p] \in {0, 1}
       /\ cancelled[p] \in BOOLEAN

\* ------------------------------------------------- steps, as seen by claims

\* this step is caller p entering executeWithCircuitBreaker
Calls(p) == ncalls'[p] = ncalls[p] + 1

\* this step is caller p being thrown 'Circuit breaker is open'
RejectedStep(p) ==
  /\ Calls(p)
  /\ pc'[p] = "idle"
  /\ outcome'[p] = "circuit_open"

\* this step is caller p being admitted: fn is invoked for attempt 1
AdmittedStep(p) ==
  /\ Calls(p)
  /\ pc'[p] = "inflight"
  /\ invoked'[p] = 1

\* this step is the failure of p's logical call reaching the breaker
FailedStep(p) == pc[p] = "rejected" /\ pc'[p] = "idle"

\* this step is the success of p's logical call reaching the breaker
SucceededStep(p) == pc[p] = "resolved" /\ pc'[p] = "idle"

\* time since the breaker recorded lastFailureTime
Elapsed == now - breaker.lastFailureTime

\* callers whose call passed the open check while the breaker was half-open
\* and whose operation has not settled yet
Probing == {p \in Procs : admitState[p] = "half-open"
                          /\ pc[p] \in {"inflight", "backoff"}}

\* -------------------------------------------------------------- claims

\* C1: while the breaker is open and the cooldown has not elapsed, every
\* call is thrown the circuit-open error at once, fn is not invoked (no call
\* counter moves) and nothing else changes.
C1_OpenRejectsWithoutInvoking ==
  [][\A p \in Procs :
       (Calls(p) /\ breaker.state = "open" /\ Elapsed < ResetTimeout)
         => /\ RejectedStep(p)
            /\ invoked' = invoked
            /\ attemptNumber' = attemptNumber]_vars

C1_Witness ==
  \E p \in Procs :
    /\ outcome[p] = "circuit_open"
    /\ breaker.state = "open"
    /\ Elapsed < ResetTimeout
    /\ breaker.failures = Threshold

\* C2: from a closed breaker with failures = 0, a run of consecutive failed
\* logical calls leaves the breaker closed while the run is shorter than
\* the threshold, and the failure that makes the run exactly threshold long
\* opens the breaker and records its own time as lastFailureTime.
C2_OpensExactlyAtThreshold ==
  [][\A p \in Procs :
       (FailedStep(p) /\ breaker.failures = streak)
         => /\ streak' < Threshold => breaker'.state = "closed"
            /\ streak' = Threshold =>
                 /\ breaker.state = "closed"
                 /\ breaker'.state = "open"
                 /\ breaker'.lastFailureTime = now]_vars

C2_Witness ==
  /\ breaker.state = "open"
  /\ breaker.failures = Threshold
  /\ streak = Threshold
  /\ breaker.lastFailureTime = now
  /\ now > 0

\* C3 as stated: with options.retries = N >= 1 an operation that fails
\* retryably on every attempt is invoked exactly N times and the error
\* reports attempts = N.
C3_AsStated ==
  \A p \in Procs :
    (enableRetry /\ pc[p] = "rejected" /\ result[p] = "retryable"
       /\ retries[p] >= 1)
      => invoked[p] = retries[p] /\ errAttempt[p] = retries[p]

\* C3 amended: with retry enabled and options.retries = N >= 0, an operation
\* that fails retryably on every attempt is invoked exactly N + 1 times and
\* the error thrown carries attemptNumber = N + 1; no call invokes fn more
\* often than that.
C3_RetriesPlusOneAttempts ==
  \A p \in Procs :
    /\ invoked[p] <= MaxRetries + 1
    /\ pc[p] # "idle" => invoked[p] <= retries[p] + 1
    /\ (enableRetry /\ pc[p] = "rejected" /\ result[p] = "retryable")
         => invoked[p] = retries[p] + 1 /\ errAttempt[p] = retries[p] + 1

C3_Witness ==
  \E p \in Procs :
    /\ enableRetry
    /\ pc[p] = "rejected"
    /\ result[p] = "retryable"
    /\ retries[p] = 1
    /\ invoked[p] = 2

\* C4: an attempt that fails with a fatal error ends the retry loop: execute
\* rejects without a backoff and without another invocation, on the first
\* attempt (one invocation in all) as on any later one, and the caller is
\* thrown that fatal error.
C4_FatalStopsTheLoop ==
  [][\A p \in Procs :
       /\ result'[p] = "fatal"
            => /\ pc'[p] = "rejected"
               /\ invoked'[p] = attemptNumber'[p]
               /\ attemptNumber'[p] = 1 => invoked'[p] = 1
       /\ (result[p] = "fatal" /\ pc'[p] # pc[p])
            => /\ pc'[p] = "idle"
               /\ outcome'[p] = "fatal_error"
               /\ invoked'[p] = invoked[p]]_vars

C4_Witness ==
  \E p \in Procs :
    /\ enableRetry
    /\ retries[p] >= 1
    /\ result[p] = "fatal"
    /\ pc[p] = "rejected"
    /\ invoked[p] = 1

\* C5 as stated: of the calls that reach a breaker that is open with the
\* cooldown elapsed, or half-open, at most one has the operation running.
C5_SingleProbe == Cardinality(Probing) <= 1

\* C6 as stated: a call reaching an open breaker with Elapsed >= resetTimeout
\* is admitted as the half-open probe, and when the probe succeeds the
\* breaker is closed with failures = 0.
C6_ProbeAtBoundary ==
  [][\A p \in Procs :
       /\ (Calls(p) /\ breaker.state = "open" /\ Elapsed >= ResetTimeout)
            => AdmittedStep(p) /\ probe'[p] /\ breaker'.state = "half-open"
       /\ (SucceededStep(p) /\ probe[p])
            => breaker'.state = "closed" /\ breaker'.failures = 0]_vars

\* C7 as stated: when the half-open probe fails, the breaker is open again
\* and lastFailureTime is the time of that failure.
C7_FailedProbeReopens ==
  [][\A p \in Procs :
       (FailedStep(p) /\ probe[p])
         => breaker'.state = "open" /\ breaker'.lastFailureTime = now]_vars

\* C8 as stated: every success of an admitted call leaves the breaker closed
\* with failures = 0.
C8_SuccessResets ==
  [][\A p \in Procs :
       SucceededStep(p)
         => breaker'.failures = 0 /\ breaker'.state = "closed"]_vars

\* C9: the failure counter grows by exactly one when a logical call ends in
\* failure, whatever its number of attempts, and at no other step: not when
\* an attempt fails and is retried, not when a call succeeds after failed
\* attempts, not when a call is rejected by the open breaker.
C9_OneCreditPerLogicalCall ==
  [][/\ \A p \in Procs :
          FailedStep(p) => breaker'.failures = breaker.failures + 1
     /\ (\A p \in Procs : ~FailedStep(p))
          => breaker'.failures \in {breaker.failures, 0}]_vars

C9_Witness ==
  \E p \in Procs :
    /\ pc[p] = "idle"
    /\ outcome[p] = "retryable_error"
    /\ invoked[p] = 2
    /\ breaker.failures = 1
    /\ TotalCalls = 1

InvokesFn(p) == attemptNumber'[p] = attemptNumber[p] + 1

\* C11 as stated: fn is never invoked while the breaker is open, not even by
\* the retry of a call that was admitted while the breaker was closed.
C11_NoInvocationWhileOpen ==
  [][\A p \in Procs : InvokesFn(p) => breaker'.state # "open"]_vars

\* C12: within one call the attempts follow one another: at most one
\* invocation of fn is outstanding, a retry starts only from the backoff
\* that followed a failed attempt, and not before the delay computed for
\* that attempt (at least one time unit) has passed.
C12_AttemptsAreSequential ==
  [][\A p \in Procs :
       /\ pending'[p] <= 1
       /\ (InvokesFn(p) /\ attemptNumber[p] >= 1)
            => /\ pc[p] = "backoff"
               /\ result[p] = "retryable"
               /\ pending[p] = 0
               /\ now >= timerDue[p]
       /\ (pc[p] = "inflight" /\ pc'[p] = "backoff")
            => /\ timerDue'[p] = now + NextTimeout(timeouts[p], attemptNumber[p])
               /\ timerDue'[p] > now]_vars

C12_Witness ==
  \E p \in Procs :
    /\ pc[p] = "inflight"
    /\ attemptNumber[p] = 2
    /\ pending[p] = 1
    /\ now >= 1

\* C13: once an attempt succeeds, execute() resolves: fn is not invoked
\* again for that call although retries were left, and the caller gets the
\* value.
C13_SuccessEndsTheCall ==
  [][\A p \in Procs :
       /\ result'[p] = "ok" => pc'[p] = "resolved" /\ pending'[p] = 0
       /\ (result[p] = "ok" /\ pc'[p] # pc[p])
            => /\ pc'[p] = "idle"
               /\ outcome'[p] = "value"
               /\ invoked'[p] = invoked[p]
       /\ result[p] = "ok" => ~InvokesFn(p)]_vars

C13_Witness ==
  \E p \in Procs :
    /\ enableRetry
    /\ policy.retries >= 1
    /\ pc[p] = "idle"
    /\ outcome[p] = "value"
    /\ invoked[p] = 1

\* C14 as stated: handle followed by isRetryable makes network errors,
\* timeouts and the statuses 429 and 5xx retryable, and validation errors,
\* 401 and every other 4xx status fatal.
C14_DefaultClassification ==
  calc.fn = "classify"
    => LET e == calc.error
       IN  /\ (\/ e.name \in {"NetworkError", "TimeoutError"}
               \/ e.status = 429
               \/ e.status \in 500..599) => calc.out = "retryable"
           /\ (\/ e.name = "ValidationError"
               \/ e.status \in (400..499) \ {429}) => calc.out = "fatal"

\* C15: a call ends either with the value, and then its last attempt
\* succeeded, or with an error: the circuit-open error when it was rejected
\* on entry, else the error of its last attempt.
C15_NoFailureIsSwallowed ==
  [][\A p \in Procs :
       /\ (pc[p] # "idle" /\ pc'[p] = "idle")
            => \/ outcome'[p] = "value" /\ result[p] = "ok"
               \/ outcome'[p] = "retryable_error" /\ result[p] = "retryable"
               \/ outcome'[p] = "fatal_error" /\ result[p] = "fatal"
       /\ (Calls(p) /\ pc'[p] = "idle") => outcome'[p] = "circuit_open"
       /\ (Calls(p) /\ pc'[p] # "idle") => outcome'[p] = "none"]_vars

C15_Witness ==
  \E p, q \in Procs :
    /\ outcome[p] = "circuit_open"
    /\ outcome[q] \in {"retryable_error", "fatal_error"}
    /\ pc[p] = "idle"
    /\ pc[q] = "idle"

\* C16 as stated: lastFailureTime is non-null exactly when the breaker is
\* open or half-open.
C16_AsStated ==
  (breaker.lastFailureTime # NoTime) <=> (breaker.state \in {"open", "half-open"})

\* C16 amended: lastFailureTime is null only until the first failed call;
\* it is set by every failed call and never cleared, so it is non-null
\* whenever the breaker is open or half-open, and also while closed after
\* failures below the threshold and after a successful probe.
C16_NonNullOnceFailed ==
  [][/\ breaker'.state # "closed" => breaker'.lastFailureTime # NoTime
     /\ breaker.lastFailureTime # NoTime => breaker'.lastFailureTime # NoTime
     /\ (\E p \in Procs : FailedStep(p)) => breaker'.lastFailureTime = now]_vars

C16_Witness ==
  /\ breaker.state = "closed"
  /\ breaker.failures = 0
  /\ breaker.lastFailureTime # NoTime

\* C17: without jitter the delay after failed attempt k is
\* min(maxTimeout, minTimeout * factor ^ (k - 1)); for 100, 2, 2000 the
\* delays after attempts 1..5 are 100, 200, 400, 800, 1600 and 2000 from then on.
C17_BackoffWithoutJitter ==
  (calc.fn = "createTimeout" /\ ~calc.opts.randomize)
    => /\ calc.out = Min(calc.opts.maxTimeout,
                         calc.opts.minTimeout
                           * Pow(calc.opts.factor, calc.attempt - 1))
       /\ (/\ calc.opts.minTimeout = 100
           /\ calc.opts.factor = 2
           /\ calc.opts.maxTimeout = 2000)
            => calc.out = IF calc.attempt <= 5
                          THEN <<100, 200, 400, 800, 1600>>[calc.attempt]
                          ELSE 2000

C17_Witness ==
  /\ calc.fn = "createTimeout"
  /\ ~calc.opts.randomize
  /\ calc.opts.minTimeout = 100
  /\ calc.opts.factor = 2
  /\ calc.opts.maxTimeout = 2000
  /\ calc.attempt = 6
  /\ calc.out = 2000

\* the delay getRetryDelay starts from, before jitter
BackoffFloor(attempt, baseDelay) == Min(30000, baseDelay * Pow(2, attempt - 1))

C19_CancelStopsTheLoop ==
  [][\A p \in Procs :
       cancelled[p]
         => /\ ~InvokesFn(p)
            /\ FailedStep(p) => breaker'.failures = breaker.failures
            /\ pc'[p] = "idle" => outcome'[p] = "cancelled"]_vars

\* calls whose retries are exhausted and whose rejection has not yet
\* reached the caller
Exhausted ==
  {p \in Procs : enableRetry /\ pc[p] = "rejected" /\ result[p] = "retryable"}

\* C20 as stated: no step changes the options object, and two calls made
\* with it against an always-failing operation make the same number of
\* attempts and wait the same delays.
C20_AsStated ==
  [][/\ policy' = policy
     /\ \A p, q \in Exhausted' :
          invoked'[p] = invoked'[q] /\ timeouts'[p] = timeouts'[q]]_vars

\* C20 amended: no step changes the options object, two calls made with it
\* against an always-failing operation make the same number of attempts,
\* and they wait the same delays when randomize is false; with randomize
\* true each call draws its own delays.
C20_SamePolicySameAttempts ==
  [][/\ policy' = policy
     /\ \A p, q \in Exhausted' :
          /\ invoked'[p] = invoked'[q]
          /\ ~policy.randomize => timeouts'[p] = timeouts'[q]]_vars

C20_Witness ==
  \E p, q \in Exhausted :
    /\ p # q
    /\ ~policy.randomize
    /\ policy.retries >= 1
    /\ invoked[p] = policy.retries + 1
    /\ timeouts[p] = timeouts[q]
    /\ Len(timeouts[p]) = policy.retries

\* C24: with appConfig.enableRetry false a call invokes fn exactly once
\* whatever options.retries says: it never waits in a backoff, computes no
\* delays, and ends with the value or the error of that one invocation, the
\* error not marked by p-retry.
C24_DisabledRetryRunsOnce ==
  [][~enableRetry
       => \A p \in Procs :
            /\ pc'[p] # "backoff"
            /\ attemptNumber'[p] <= 1
            /\ timeouts'[p] = <<>>
            /\ errAttempt'[p] = 0
            /\ (pc[p] = "inflight" /\ pc'[p] # "inflight")
                 => /\ invoked'[p] = 1
                    /\ pc'[p] = IF result'[p] = "ok" THEN "resolved"
                                ELSE "rejected"
            /\ (pc[p] \in {"resolved", "rejected"} /\ pc'[p] = "idle")
                 => outcome'[p] = IF result[p] = "ok" THEN "value"
                                  ELSE IF result[p] = "retryable"
                                       THEN "retryable_error"
                                       ELSE "fatal_error"]_vars

C24_Witness ==
  \E p \in Procs :
    /\ ~enableRetry
    /\ policy.retries >= 1
    /\ pc[p] = "idle"
    /\ outcome[p] = "retryable_error"
    /\ invoked[p] = 1

\* C25: with one threshold used by all callers, a closed breaker has fewer
\* failures than the threshold and an open or half-open breaker has at
\* least the threshold, under every interleaving of the callers.
C25_StateMatchesCounter ==
  /\ breaker.state = "closed" => breaker.failures < Threshold
  /\ breaker.state \in {"open", "half-open"} => breaker.failures >= Threshold

C25_Witness ==
  /\ breaker.state = "open"
  /\ breaker.failures > Threshold
  /\ \E p \in Procs : pc[p] = "idle" /\ admitState[p] = "none"
                      /\ outcome[p] \in {"retryable_error", "fatal_error"}

\* C26 as stated: while the breaker is open lastFailureTime does not change;
\* in particular the failure of a call admitted before the breaker opened
\* does not rewrite it.
C26_OpenedAtIsFrozenWhileOpen ==
  [][breaker.state = "open"
       => breaker'.lastFailureTime = breaker.lastFailureTime]_vars

\* C27: a call rejected by the open check leaves the breaker as it was:
\* counter, lastFailureTime and state, so the moment the cooldown ends does
\* not move.
C27_RejectionLeavesBreaker ==
  [][\A p \in Procs :
       RejectedStep(p)
         => /\ breaker' = breaker
            /\ \A t \in 0..MaxTime :
                 CooldownElapsed(breaker', t) <=> CooldownElapsed(breaker, t)]_vars

C27_Witness ==
  /\ breaker.state = "open"
  /\ breaker.failures = Threshold
  /\ \A p \in Procs : pc[p] = "idle" /\ outcome[p] = "circuit_open"

\* a text that is a non-negative integer in decimal digits
IsNatural(env) ==
  env.set /\ env.text # <<>> /\ \A i \in DOMAIN env.text : IsDigit(env.text[i])

\* C30 as stated: appConfig.maxRetryAttempts is the integer given in
\* MAX_RETRY_ATTEMPTS for every integer >= 0, zero included, and the default
\* 3 when the variable is unset or not a number.
C30_EnvGivesRetryCount ==
  calc.fn = "maxRetryAttempts"
    => /\ IsNatural(calc.env)
            => calc.out = [ok |-> TRUE, value |-> DigitPrefix(calc.env.text, 0)]
       /\ (~calc.env.set \/ ParseInt(calc.env).nan)
            => calc.out = [ok |-> TRUE, value |-> 3]

\* this step is chat c resuming with the parsed output (its success path)
CompletesStep(c) == cpc[c] = "parsing" /\ cpc'[c] # "parsing"

\* this step is an attempt of chat c failing: a retry is scheduled or the
\* chat throws
AttemptFailsStep(c) == cpc[c] = "invoking" /\ cpc'[c] \notin {"invoking", "parsing"}

\* this step is chat c being entered, by a caller or by batchProcess
StartsStep(c) == cpc[c] \in {"idle", "fulfilled", "thrown"} /\ cpc'[c] = "invoking"

\* C21: a chat on a conversation id that succeeds appends exactly two
\* messages to that id's history, the human message of the input (of its
\* last element for an array) and then the AI output, and leaves the other
\* histories alone; a chat entered later sends the system message, then
\* the history of its id, then its input; a failed attempt or a failed chat
\* changes no history.
C21_HistoryGrowsByExchange ==
  [][\A c \in Chats :
       /\ CompletesStep(c)
            => IF copt[c].conv = NoConv
               THEN conversations' = conversations
               ELSE /\ DOMAIN conversations'
                         = DOMAIN conversations \cup {copt[c].conv}
                    /\ conversations'[copt[c].conv]
                         = GetConversationHistory(conversations, copt[c].conv)
                             \o <<HumanMessage(Last(copt[c].input)),
                                  AIMessage(creply[c])>>
                    /\ \A j \in DOMAIN conversations \ {copt[c].conv} :
                         conversations'[j] = conversations[j]
       /\ AttemptFailsStep(c) => conversations' = conversations
       /\ StartsStep(c)
            => csent'[c]
                 = (IF copt'[c].sys THEN <<SystemMessage>> ELSE <<>>)
                     \o (IF copt'[c].conv \in DOMAIN conversations
                         THEN conversations[copt'[c].conv] ELSE <<>>)
                     \o [k \in 1..Len(copt'[c].input) |->
                           HumanMessage(copt'[c].input[k])]]_vars

C21_Witness ==
  \E c \in Chats :
    /\ cpc[c] = "invoking"
    /\ copt[c].sys
    /\ copt[c].conv \in DOMAIN conversations
    /\ Len(conversations[copt[c].conv]) = 2
    /\ Len(csent[c]) = 3 + Len(copt[c].input)
    /\ csent[c][2] = conversations[copt[c].conv][1]
    /\ csent[c][3] = conversations[copt[c].conv][2]
    /\ nfailed >= 1

\* the index fields of a list of batch entries
Indices(entries) == {entries[k].index : k \in DOMAIN entries}
Increasing(entries) ==
  \A k \in DOMAIN entries :
    k > 1 => entries[k - 1].index < entries[k].index

\* C22: batchProcess makes its chat calls one after the other in index
\* order: nothing is recorded or entered while a chat is in flight, the
\* outcome of input i is recorded once the chat settled, in results when it
\* succeeded and in errors when it threw, and the chat for input i + 1 is
\* entered in that step; when it returns, the indices in results and
\* errors partition 0..n-1, each list is increasing, and the lengths add up
\* to n.
C22_BatchIsSequentialAndComplete ==
  [][\A c \in Chats :
       LET b == batch[c]
           b2 == batch'[c]
       IN  /\ (b.active /\ InFlight(c)) => b2 = b
           /\ (b.active /\ b2 # b)
                => /\ cpc[c] \in {"fulfilled", "thrown"}
                   /\ b2.i = b.i + 1
                   /\ b2.inputs = b.inputs
                   /\ IF cpc[c] = "fulfilled"
                      THEN /\ b2.results
                                = Append(b.results, [index |-> b.i,
                                                     output |-> creply[c]])
                           /\ b2.errors = b.errors
                      ELSE /\ b2.errors
                                = Append(b.errors,
                                         [index |-> b.i,
                                          input |-> b.inputs[b.i + 1]])
                           /\ b2.results = b.results
                   /\ IF b2.i < Len(b.inputs)
                      THEN /\ b2.active
                           /\ cpc'[c] = "invoking"
                           /\ copt'[c].input = b.inputs[b2.i + 1]
                      ELSE /\ ~b2.active
                           /\ cpc'[c] = "idle"
           /\ (b.active /\ ~b2.active)
                => /\ Indices(b2.results) \cup Indices(b2.errors)
                        = 0..(Len(b2.inputs) - 1)
                   /\ Indices(b2.results) \cap Indices(b2.errors) = {}
                   /\ Len(b2.results) + Len(b2.errors) = Len(b2.inputs)
                   /\ Increasing(b2.results)
                   /\ Increasing(b2.errors)]_vars

C22_Witness ==
  \E c \in Chats :
    /\ ~batch[c].active
    /\ cpc[c] = "idle"
    /\ Len(batch[c].inputs) = 2
    /\ Len(batch[c].errors) = 1
    /\ Len(batch[c].results) = 1
    /\ batch[c].errors[1].index = 0
    /\ batch[c].results[1].index = 1

\* C23: metrics.totalCalls is the number of chat calls that have settled,
\* one per call whatever its number of attempts, metrics.errors the number
\* of those that threw, 0 <= errors <= totalCalls, and successRate is 0
\* without calls and between 0 and 100 otherwise.
C23_MetricsCountLogicalCalls ==
  /\ metrics.totalCalls = nchats - Cardinality({c \in Chats : InFlight(c)})
  /\ metrics.errors = nfailed
  /\ 0 <= metrics.errors
  /\ metrics.errors <= metrics.totalCalls
  /\ metrics.totalCalls = 0 => SuccessRate(metrics).num = 0
  /\ 0 <= SuccessRate(metrics).num
  /\ SuccessRate(metrics).num <= 100 * SuccessRate(metrics).den

C23_Witness ==
  /\ metrics = [totalCalls |-> 2, errors |-> 1]
  /\ \E c \in Chats : cpc[c] = "invoking" /\ cattempt[c] = 2

\* C28: every history has even length and alternates human, ai, each ai
\* message being the answer to the human message before it, under every
\* interleaving of chat calls on the same id.
C28_HistoryAlternates ==
  \A id \in DOMAIN conversations :
    LET h == conversations[id]
    IN  /\ Len(h) % 2 = 0
        /\ \A k \in DOMAIN h :
             IF k % 2 = 1
             THEN h[k].role = "human"
             ELSE h[k] = AIMessage(Reply(h[k - 1].content))

\* a chat that was sent without the exchange its conversation now holds is
\* about to record its own: the two chats overlapped
C28_Witness ==
  \E c \in Chats :
    /\ cpc[c] = "parsing"
    /\ ~stale[c]
    /\ copt[c].conv \in DOMAIN conversations
    /\ Len(conversations[copt[c].conv]) = 2
    /\ Len(csent[c]) = Len(copt[c].input)

\* C29 as stated: a chat that was in flight when its conversation was
\* cleared adds nothing to the conversations when it completes.
C29_ClearedStaysCleared ==
  [][\A c \in Chats :
       (stale[c] /\ CompletesStep(c)) => conversations' = conversations]_vars
====
